---- MODULE Spec2Model ----
(***************************************************************************)
(* Model of src/components/GyroscopeSimulation.tsx: the four useState      *)
(* cells of GyroscopeSimulation, the props captured by the useFrame        *)
(* callback of Gyroscope, and the Euler rotation fields of the wheel and   *)
(* of the two gimbal rings that the callback mutates once per frame.       *)
(*                                                                         *)
(* Units.  Time is counted in ticks of 1/TicksPerSecond s.  Wheel angles   *)
(* are counted in units of pi/MathPI rad, so that the source expression    *)
(* (spinRate * spinDirection * delta * Math.PI) / 30 is exact on integers. *)
(* Ring angles are counted in units of 0.001/SinScale rad.                 *)
(*                                                                         *)
(* A JavaScript number is a record [k, v]: k = "fin" with integer value v, *)
(* k = "inf" with sign v, or k = "nan".                                    *)
(***************************************************************************)
EXTENDS Integers, Sequences, FiniteSets, TLC

VARIABLES spinRate, spinDirection, spinAxis, gimbalLocked,
          props, wheel, outerGimbal, innerGimbal, clock,
          frames, events, lastFrame, lockSnap, ref

vars == <<spinRate, spinDirection, spinAxis, gimbalLocked,
          props, wheel, outerGimbal, innerGimbal, clock,
          frames, events, lastFrame, lockSnap, ref>>

config == <<spinRate, spinDirection, spinAxis, gimbalLocked>>
bodies == <<wheel, outerGimbal, innerGimbal>>

(***************************************************************************)
(* Units and bounds                                                        *)
(***************************************************************************)
TicksPerSecond == 60
MathPI == 1800
SinScale == 10000

MaxFrames == 3
MaxEvents == 3
SteadyFrames == 60
UnitFrames == 2

DriverDeltas == {3, 5}
SteadyDeltas == {1, 2, 4}
RateInputs == {-1, 300, 301}

OneHotAxes == {<<1, 0, 0>>, <<0, 1, 0>>, <<0, 0, 1>>}
AnyAxes == {<<a, b, c>> : a \in {0, 1}, b \in {0, 1}, c \in {0, 1}}

(***************************************************************************)
(* JavaScript numbers                                                      *)
(***************************************************************************)
Fin(n) == [k |-> "fin", v |-> n]
NaN == [k |-> "nan", v |-> 0]
Inf(s) == [k |-> "inf", v |-> s]

Sign(n) == IF n > 0 THEN 1 ELSE IF n < 0 THEN -1 ELSE 0
Abs(n) == IF n < 0 THEN -n ELSE n
TruncDiv(n, d) == Sign(n) * (Abs(n) \div d)

IsFinite(a) == a.k = "fin"
IsNegative(a) == a.k # "nan" /\ a.v < 0

JsMul(a, b) ==
  IF a.k = "nan" \/ b.k = "nan" THEN NaN
  ELSE IF a.k = "fin" /\ b.k = "fin" THEN Fin(a.v * b.v)
  ELSE IF Sign(a.v) * Sign(b.v) = 0 THEN NaN
  ELSE Inf(Sign(a.v) * Sign(b.v))

JsAdd(a, b) ==
  IF a.k = "nan" \/ b.k = "nan" THEN NaN
  ELSE IF a.k = "fin" /\ b.k = "fin" THEN Fin(a.v + b.v)
  ELSE IF a.k = "fin" THEN b
  ELSE IF b.k = "fin" THEN a
  ELSE IF a.v = b.v THEN a
  ELSE NaN

\* a * num / den for positive finite constants num and den
JsScale(a, num, den) ==
  IF a.k = "fin" THEN Fin(TruncDiv(a.v * num, den)) ELSE a

(***************************************************************************)
(* Math.sin(elapsedTime * 0.5) and Math.cos(elapsedTime * 0.3), in units   *)
(* of 1/SinScale, by their Taylor polynomials up to x^7 and x^6 in         *)
(* fixed-point arithmetic (argument n/den rad, used for |n/den| < 2).      *)
(***************************************************************************)
SquareFx(n, den) == (n * n * SinScale) \div (den * den)

SinFx(n, den) ==
  LET x2 == SquareFx(n, den)
      t3 == SinScale - (x2 \div 42)
      t2 == SinScale - ((x2 * t3) \div (20 * SinScale))
      t1 == SinScale - ((x2 * t2) \div (6 * SinScale))
  IN  TruncDiv(n * t1, den)

CosFx(n, den) ==
  LET x2 == SquareFx(n, den)
      t3 == SinScale - (x2 \div 30)
      t2 == SinScale - ((x2 * t3) \div (12 * SinScale))
  IN  SinScale - ((x2 * t2) \div (2 * SinScale))

\* Math.sin(state.clock.elapsedTime * 0.5) * 0.001
outerStep(elapsed) ==
  IF elapsed.k = "fin" THEN Fin(SinFx(elapsed.v, 2 * TicksPerSecond)) ELSE NaN

\* Math.cos(state.clock.elapsedTime * 0.3) * 0.001
innerStep(elapsed) ==
  IF elapsed.k = "fin" THEN Fin(CosFx(elapsed.v * 3, 10 * TicksPerSecond)) ELSE NaN

(***************************************************************************)
(* The useFrame callback of Gyroscope.  The three mesh refs are attached   *)
(* at mount and stay attached, so the tests on wheelRef.current,           *)
(* outerGimbalRef.current and innerGimbalRef.current always pass.          *)
(***************************************************************************)
\* mutant: the increment is per frame, not per second (delta dropped)
rotationSpeed_perFrame(rate, direction, delta) ==
  JsScale(JsMul(Fin(rate), Fin(direction)), MathPI, 30 * TicksPerSecond)

\* mutant: the increment ignores spinDirection
rotationSpeed_unsigned(rate, direction, delta) ==
  JsScale(JsMul(Fin(rate), delta), MathPI, 30 * TicksPerSecond)

\* rotationSpeed = (spinRate * spinDirection * delta * Math.PI) / 30
rotationSpeed(rate, direction, delta) ==
  JsScale(JsMul(JsMul(Fin(rate), Fin(direction)), delta),
          MathPI, 30 * TicksPerSecond)

\* mutant: the chain ends in a plain else that turns the wheel about Z
WheelAfter_trailingElse(w, p, delta) ==
  LET speed == rotationSpeed(p.spinRate, p.spinDirection, delta)
  IN  IF p.spinAxis[1] = 1 THEN [w EXCEPT ![1] = JsAdd(@, speed)]
      ELSE IF p.spinAxis[2] = 1 THEN [w EXCEPT ![2] = JsAdd(@, speed)]
      ELSE [w EXCEPT ![3] = JsAdd(@, speed)]

\* the if / else-if chain on spinAxis[0], spinAxis[1], spinAxis[2]
WheelAfter(w, p, delta) ==
  LET speed == rotationSpeed(p.spinRate, p.spinDirection, delta)
  IN  IF p.spinAxis[1] = 1 THEN [w EXCEPT ![1] = JsAdd(@, speed)]
      ELSE IF p.spinAxis[2] = 1 THEN [w EXCEPT ![2] = JsAdd(@, speed)]
      ELSE IF p.spinAxis[3] = 1 THEN [w EXCEPT ![3] = JsAdd(@, speed)]
      ELSE w

\* outerGimbalRef.current.rotation.x += ... unless gimbalLocked
OuterAfter(o, p, elapsed) ==
  IF ~p.gimbalLocked THEN JsAdd(o, outerStep(elapsed)) ELSE o

\* mutant: the inner ring moves whether or not the rings are locked
InnerAfter_ignoresLock(i, p, elapsed) ==
  JsAdd(i, innerStep(elapsed))

\* innerGimbalRef.current.rotation.z += ... unless gimbalLocked
InnerAfter(i, p, elapsed) ==
  IF ~p.gimbalLocked THEN JsAdd(i, innerStep(elapsed)) ELSE i

(***************************************************************************)
(* Reference orientation of the wheel: the word of axis-angle rotations    *)
(* post-multiplied frame by frame (consecutive rotations about the same    *)
(* axis add their angles).  History variable, not read by the program.     *)
(***************************************************************************)
IsZeroAxis(a) == a = <<0, 0, 0>>

RefAfter(r, p, delta) ==
  LET angle == rotationSpeed(p.spinRate, p.spinDirection, delta)
  IN  IF IsZeroAxis(p.spinAxis) THEN r
      ELSE IF Len(r) > 0 /\ r[Len(r)].axis = p.spinAxis
           THEN [r EXCEPT ![Len(r)].angle = JsAdd(@, angle)]
           ELSE Append(r, [axis |-> p.spinAxis, angle |-> angle])

UseFrame(delta, elapsed) ==
  /\ wheel' = WheelAfter(wheel, props, delta)
  /\ outerGimbal' = OuterAfter(outerGimbal, props, elapsed)
  /\ innerGimbal' = InnerAfter(innerGimbal, props, elapsed)
  /\ ref' = RefAfter(ref, props, delta)
  /\ frames' = frames + 1
  /\ lastFrame' = [n |-> frames + 1, delta |-> delta, elapsed |-> elapsed,
                   props |-> props, wheel |-> wheel,
                   outer |-> outerGimbal, inner |-> innerGimbal]

(***************************************************************************)
(* State after construction                                                *)
(***************************************************************************)
Props(rate, direction, axis, locked) ==
  [spinRate |-> rate, spinDirection |-> direction,
   spinAxis |-> axis, gimbalLocked |-> locked]

NoFrame ==
  [n |-> 0, delta |-> Fin(0), elapsed |-> Fin(0),
   props |-> Props(60, 1, <<0, 1, 0>>, FALSE),
   wheel |-> <<Fin(0), Fin(0), Fin(0)>>, outer |-> Fin(0), inner |-> Fin(0)]

NoSnap == [outer |-> Fin(0), inner |-> Fin(0), frame |-> 0, held |-> FALSE]

Scene ==
  /\ wheel = <<Fin(0), Fin(0), Fin(0)>>
  /\ outerGimbal = Fin(0)
  /\ innerGimbal = Fin(0)
  /\ clock = Fin(0)
  /\ frames = 0
  /\ events = 0
  /\ lastFrame = NoFrame
  /\ ref = << >>

Mounted(p) ==
  /\ spinRate = p.spinRate
  /\ spinDirection = p.spinDirection
  /\ spinAxis = p.spinAxis
  /\ gimbalLocked = p.gimbalLocked
  /\ props = p
  /\ lockSnap = [NoSnap EXCEPT !.held = p.gimbalLocked]
  /\ Scene

Init == Mounted(Props(60, 1, <<0, 1, 0>>, FALSE))

(***************************************************************************)
(* UI event handlers of GyroscopeSimulation                                *)
(***************************************************************************)
Event ==
  /\ events < MaxEvents
  /\ events' = events + 1
  /\ UNCHANGED <<props, bodies, clock, frames, lastFrame, lockSnap, ref>>

\* onChange={(e) => setSpinRate(Number(e.target.value))}
setSpinRate(value) ==
  /\ spinRate' = value
  /\ UNCHANGED <<spinDirection, spinAxis, gimbalLocked>>
  /\ Event

\* onClick={() => setSpinDirection(1)} and onClick={() => setSpinDirection(-1)}
setSpinDirection(direction) ==
  /\ spinDirection' = direction
  /\ UNCHANGED <<spinRate, spinAxis, gimbalLocked>>
  /\ Event

\* mutant: a selection sets its component and keeps the others
handleAxisChange_accumulate(axis) ==
  /\ spinAxis' = CASE axis = "X" -> [spinAxis EXCEPT ![1] = 1]
                   [] axis = "Y" -> [spinAxis EXCEPT ![2] = 1]
                   [] axis = "Z" -> [spinAxis EXCEPT ![3] = 1]
                   [] OTHER -> spinAxis
  /\ UNCHANGED <<spinRate, spinDirection, gimbalLocked>>
  /\ Event

handleAxisChange(axis) ==
  /\ spinAxis' = CASE axis = "X" -> <<1, 0, 0>>
                   [] axis = "Y" -> <<0, 1, 0>>
                   [] axis = "Z" -> <<0, 0, 1>>
                   [] OTHER -> spinAxis
  /\ UNCHANGED <<spinRate, spinDirection, gimbalLocked>>
  /\ Event

\* onChange={(e) => setGimbalLocked(e.target.checked)}
setGimbalLocked(checked) ==
  /\ gimbalLocked' = checked
  /\ UNCHANGED <<spinRate, spinDirection, spinAxis>>
  /\ Event

(***************************************************************************)
(* Re-render: Gyroscope runs again with the props built from the current   *)
(* state cells, and its useFrame callback captures them together.          *)
(***************************************************************************)
SnapAfter(p) ==
  IF ~p.gimbalLocked THEN NoSnap
  ELSE IF props.gimbalLocked THEN lockSnap
  ELSE [outer |-> outerGimbal, inner |-> innerGimbal,
        frame |-> frames, held |-> TRUE]

Render ==
  /\ props # Props(spinRate, spinDirection, spinAxis, gimbalLocked)
  /\ props' = Props(spinRate, spinDirection, spinAxis, gimbalLocked)
  /\ lockSnap' = SnapAfter(props')
  /\ UNCHANGED <<config, bodies, clock, frames, events, lastFrame, ref>>

(***************************************************************************)
(* The frame driver: the clock advances by delta, then the callback runs   *)
(* with the new elapsed time.                                              *)
(***************************************************************************)
Tick(d) ==
  /\ frames < MaxFrames
  /\ clock' = JsAdd(clock, Fin(d))
  /\ UseFrame(Fin(d), clock')
  /\ UNCHANGED <<config, props, events, lockSnap>>

Next ==
  \/ \E value \in RateInputs : setSpinRate(value)
  \/ \E direction \in {1, -1} : setSpinDirection(direction)
  \/ \E axis \in {"X", "Y", "Z"} : handleAxisChange(axis)
  \/ \E checked \in BOOLEAN : setGimbalLocked(checked)
  \/ Render
  \/ \E d \in DriverDeltas : Tick(d)

Spec == Init /\ [][Next]_vars

(***************************************************************************)
(* Steady run: Gyroscope mounted with fixed props (rings locked), driven   *)
(* by frames of varying length and never re-rendered.                      *)
(***************************************************************************)
SteadyProps ==
  {Props(rate, direction, axis, TRUE) :
     rate \in {60, 300}, direction \in {1, -1}, axis \in OneHotAxes}

InitSteady == \E p \in SteadyProps : Mounted(p)

TickSteady(d) ==
  /\ frames < SteadyFrames
  /\ clock' = JsAdd(clock, Fin(d))
  /\ UseFrame(Fin(d), clock')
  /\ UNCHANGED <<config, props, events, lockSnap>>

NextSteady == \E d \in SteadyDeltas : TickSteady(d)

SpecSteady == InitSteady /\ [][NextSteady]_vars

(***************************************************************************)
(* The callback alone: Gyroscope mounted with any props of its interface,  *)
(* the callback invoked with any delta and any elapsed time.               *)
(***************************************************************************)
AnyDeltas == {Fin(-2), Fin(3), NaN, Inf(1)}
AnyElapsed == {Fin(-30), Fin(30), NaN}

AnyProps ==
  {Props(rate, direction, axis, locked) :
     rate \in {0, 60}, direction \in {1, -1},
     axis \in AnyAxes, locked \in BOOLEAN}

InitUnit == \E p \in AnyProps : Mounted(p)

FrameAny(delta, elapsed) ==
  /\ frames < UnitFrames
  /\ clock' = elapsed
  /\ UseFrame(delta, elapsed)
  /\ UNCHANGED <<config, props, events, lockSnap>>

NextUnit == \E delta \in AnyDeltas, elapsed \in AnyElapsed : FrameAny(delta, elapsed)

SpecUnit == InitUnit /\ [][NextUnit]_vars

(***************************************************************************)
(* Orientation matrices at quarter turns.  three.js builds the matrix of   *)
(* an Euler triple in its default order 'XYZ' as Rx(x) * Ry(y) * Rz(z).    *)
(***************************************************************************)
Quarter == MathPI \div 2

CosQ(q) == <<1, 0, -1, 0>>[(q % 4) + 1]
SinQ(q) == <<0, 1, 0, -1>>[(q % 4) + 1]

RotX(q) == << <<1, 0, 0>>, <<0, CosQ(q), -SinQ(q)>>, <<0, SinQ(q), CosQ(q)>> >>
RotY(q) == << <<CosQ(q), 0, SinQ(q)>>, <<0, 1, 0>>, <<-SinQ(q), 0, CosQ(q)>> >>
RotZ(q) == << <<CosQ(q), -SinQ(q), 0>>, <<SinQ(q), CosQ(q), 0>>, <<0, 0, 1>> >>

Identity3 == RotX(0)

MatMul(A, B) ==
  [i \in 1..3 |-> [j \in 1..3 |->
     A[i][1] * B[1][j] + A[i][2] * B[2][j] + A[i][3] * B[3][j]]]

IsQuarterTurn(a) == a.k = "fin" /\ a.v % Quarter = 0
Turns(a) == a.v \div Quarter

AxisRotation(axis, q) ==
  IF axis = <<1, 0, 0>> THEN RotX(q)
  ELSE IF axis = <<0, 1, 0>> THEN RotY(q)
  ELSE RotZ(q)

EulerMatrix(w) ==
  MatMul(MatMul(RotX(Turns(w[1])), RotY(Turns(w[2]))), RotZ(Turns(w[3])))

RECURSIVE WordMatrix(_)
WordMatrix(r) ==
  IF r = << >> THEN Identity3
  ELSE MatMul(WordMatrix(SubSeq(r, 1, Len(r) - 1)),
              AxisRotation(r[Len(r)].axis, Turns(r[Len(r)].angle)))

AtQuarterTurns ==
  /\ \A i \in 1..3 : IsQuarterTurn(wheel[i])
  /\ \A k \in 1..Len(ref) : IsQuarterTurn(ref[k].angle)

(***************************************************************************)
(* Claims                                                                  *)
(***************************************************************************)
OneHot(a) == a \in OneHotAxes
Ran == lastFrame.n > 0
WheelInc(i) == wheel[i].v - lastFrame.wheel[i].v

\* C1: in every reachable state spinAxis is one-hot, in the state cell, in
\* the props a frame reads and in the props the last frame has read.
C1_SpinAxisOneHot ==
  /\ OneHot(spinAxis)
  /\ OneHot(props.spinAxis)
  /\ OneHot(lastFrame.props.spinAxis)

\* C1 witness: X was selected and rendered, a frame ran on it, Z was
\* selected after it.
C1_Witness ==
  /\ Ran
  /\ lastFrame.props.spinAxis = <<1, 0, 0>>
  /\ spinAxis = <<0, 0, 1>>

\* C2: while the frame callback holds gimbalLocked = TRUE, both rings keep
\* the orientation they had when the lock took effect.
C2_LockedRingsFrozen ==
  props.gimbalLocked =>
    /\ lockSnap.held
    /\ outerGimbal = lockSnap.outer
    /\ innerGimbal = lockSnap.inner

\* C2 witness: the rings had moved before the lock, two frames ran under
\* the lock, the last one with a spin configuration other than the default.
C2_Witness ==
  /\ props.gimbalLocked
  /\ lockSnap.outer # Fin(0)
  /\ frames >= lockSnap.frame + 2
  /\ lastFrame.props.gimbalLocked
  /\ lastFrame.props.spinRate # 60

\* C3 (as claimed): the stored spin rate, and the spin rate a frame reads,
\* are within [0, 300].
C3_SpinRateClamped ==
  /\ spinRate \in 0..300
  /\ props.spinRate \in 0..300
  /\ lastFrame.props.spinRate \in 0..300

\* C4 (as claimed): the wheel increment of a frame is at most
\* spinRateRPM * (1/15 s) * pi/30 in absolute value.
MaxDeltaTicks == TicksPerSecond \div 15

C4_WheelIncrementBounded ==
  Ran => \A i \in 1..3 :
    Abs(WheelInc(i)) <=
      TruncDiv(lastFrame.props.spinRate * MaxDeltaTicks * MathPI,
               30 * TicksPerSecond)

\* C5 (as claimed): a frame with a negative or non-finite deltaTime or
\* elapsedTime leaves the wheel and both rings as they were.
InvalidTime(t) == ~IsFinite(t) \/ IsNegative(t)

C5_InvalidTimeIsNoOp ==
  (Ran /\ (InvalidTime(lastFrame.delta) \/ InvalidTime(lastFrame.elapsed))) =>
    /\ wheel = lastFrame.wheel
    /\ outerGimbal = lastFrame.outer
    /\ innerGimbal = lastFrame.inner

\* C6: a frame that reads the zero vector as spinAxis leaves all three wheel
\* rotation components unchanged and produces no NaN in them.
C6_ZeroAxisIsIdentity ==
  (Ran /\ IsZeroAxis(lastFrame.props.spinAxis)) =>
    /\ wheel = lastFrame.wheel
    /\ \A i \in 1..3 : wheel[i].k # "nan"

\* C6 witness: a frame ran with the zero axis, a non-zero spin rate and a
\* NaN delta.
C6_Witness ==
  /\ Ran
  /\ IsZeroAxis(lastFrame.props.spinAxis)
  /\ lastFrame.props.spinRate # 0
  /\ lastFrame.delta = NaN

\* C7: with rate, direction and axis held constant, the angle accumulated
\* about the selected axis is spinRate * spinDirection * (sum of the deltas)
\* * pi/30 whatever the frames' lengths, nothing accumulates about the other
\* axes, and 60 frames of 1/60 s at 60 RPM, direction +1, axis Y give 2*pi.
C7_FrameRateIndependent ==
  /\ \A i \in 1..3 :
       wheel[i] = Fin(TruncDiv(props.spinAxis[i] * props.spinRate
                                 * props.spinDirection * clock.v * MathPI,
                               30 * TicksPerSecond))
  /\ ( /\ props.spinRate = 60 /\ props.spinDirection = 1
       /\ props.spinAxis = <<0, 1, 0>>
       /\ frames = 60 /\ clock = Fin(TicksPerSecond) )
     => wheel[2] = Fin(2 * MathPI)

\* C7 witness: 60 frames of one tick (1/60 s) each at 60 RPM, direction +1,
\* about Y.
C7_Witness ==
  /\ props.spinRate = 60 /\ props.spinDirection = 1
  /\ props.spinAxis = <<0, 1, 0>>
  /\ frames = 60
  /\ clock = Fin(TicksPerSecond)

\* C8: the wheel increment of a frame is the negation of the increment the
\* same frame gives with spinDirection reversed, and spinDirection is +1 or
\* -1 in the state cell and in the props a frame reads.
Reversed(p) == [p EXCEPT !.spinDirection = -@]

C8_DirectionNegates ==
  /\ spinDirection \in {1, -1}
  /\ props.spinDirection \in {1, -1}
  /\ Ran => \A i \in 1..3 :
       WheelInc(i) =
         -(WheelAfter(lastFrame.wheel, Reversed(lastFrame.props),
                      lastFrame.delta)[i].v - lastFrame.wheel[i].v)

\* C8 witness: a frame ran counter-clockwise and turned the wheel.
C8_Witness ==
  /\ Ran
  /\ lastFrame.props.spinDirection = -1
  /\ \E i \in 1..3 : WheelInc(i) # 0

\* C9 (as claimed): the wheel's orientation is the product, frame by frame,
\* of the rotations about each frame's selected axis (compared where every
\* angle is a whole number of quarter turns).
C9_WheelIsComposedRotation ==
  AtQuarterTurns => EulerMatrix(wheel) = WordMatrix(ref)

====
